---- MODULE Spec2Model ----
(***************************************************************************)
(* Usage collection of distil: CollectorService (service/collector.py)     *)
(* running one periodic cycle per collector instance against a shared      *)
(* store, and BaseCollector.collect_usage (collector/base.py) committing   *)
(* one window at a time.  Time is counted in whole hours.                  *)
(***************************************************************************)
EXTENDS Integers, Sequences, FiniteSets, TLC

(* ---- bounds of the model ---- *)
NumCollectors == 2
NumProjects == 2
NumMappings == 2
MaxTime == 3

(* ---- configuration, the CONF.collector options ---- *)
collect_window == 1
max_windows_per_cycle == 2
max_collection_start_age == 1

StartTime == 2
NoTime == -1
NoOwner == 0

Collectors == 1..NumCollectors
Projects == 1..NumProjects
meter_mappings == 1..NumMappings

VARIABLES
    now,              \* datetime.utcnow(), in hours
    collect_end_time, \* CONF.collect_end_time, NoTime when not configured
    created_on,       \* project -> external creation timestamp or NoTime
    project_locks,    \* store: project -> owner of its lock or NoOwner
    last_collected,   \* store: project -> watermark, NoTime when not stored
    usage_store,      \* store: committed usage entries <<project, start, end, mapping>>
    svc,              \* collector -> the locals of its CollectorService cycle
    seed,             \* project -> watermark given at creation (history)
    committed,        \* project -> windows committed, in commit order (history)
    base,             \* one window of BaseCollector.collect_usage, sample by sample
    xform,            \* one call of a transformer's transform_usage
    sink              \* the gauges of the metrics sink and the run that sets them

\* The fields of svc[c]:
\*   pc               position in collect_usage/_collect_usage
\*   valid_projects   processing order of this cycle
\*   idx              index of the current project in valid_projects
\*   last_collect     get_last_collect result of this cycle
\*   end              end cutoff of this cycle
\*   processed_count, success_count, updated_count
\*   windows          windows passed to collector.collect_usage
\*   win              index of the window being collected
\*   mapping          index of the mapping being fetched
\*   usage_entries    usage entries built for the current window
\*   collect_ret      return value of collector.collect_usage
\*   leave            how the locked section is left
\*   ret              last return value of the periodic collect_usage
\*   timer_alive      the timer loop still runs
\*   yielded          eventlet.sleep() ran when the previous project was left
\*   exc_logged       the previous cycle ended in LOG.exception
\*   had_windows      a project processed in this cycle had a window to collect

vars == <<now, collect_end_time, created_on, project_locks, last_collected,
          usage_store, svc, seed, committed, base, xform, sink>>

\* What no step of a cycle changes.
env_vars == <<now, collect_end_time, created_on, base, xform, sink>>
\* The state of the cycles, which no step outside a cycle changes.
cycle_vars == <<now, collect_end_time, created_on, project_locks, last_collected,
                usage_store, svc, seed, committed>>
store_vars == <<project_locks, last_collected, usage_store, seed, committed>>

(* ---- helpers ---- *)
Max(S) == CHOOSE x \in S : \A y \in S : y <= x
Min(S) == CHOOSE x \in S : \A y \in S : x <= y

Perms(S) ==
    {f \in [1..Cardinality(S) -> S] : \A i, j \in 1..Cardinality(S) : f[i] = f[j] => i = j}

(* ---- persistence layer and window computation ---- *)

\* general.get_windows: consecutive windows of collect_window hours from
\* start, none reaching beyond e, at most max_windows_per_cycle of them.
RECURSIVE get_windows_from(_, _, _)
get_windows_from(start, e, n) ==
    IF n = 0 \/ start + collect_window > e
    THEN <<>>
    ELSE <<<<start, start + collect_window>>>>
         \o get_windows_from(start + collect_window, e, n - 1)

get_windows(start, e) == get_windows_from(start, e, max_windows_per_cycle)

\* db_api.get_last_collect: the oldest watermark among the stored projects
\* of project_ids, NoTime when none of them is stored.
get_last_collect(lc, project_ids) ==
    LET known == {lc[p] : p \in {q \in project_ids : lc[q] # NoTime}}
    IN IF known = {} THEN NoTime ELSE Min(known)

\* helpers.get_max_last_collected: the lookback ceiling.
get_max_last_collected(t) == t - max_collection_start_age

\* db_api.project_add: the watermark of the record returned for project p;
\* a stored project keeps its watermark, a new one is seeded.
project_add(lc, p, created, default, t) ==
    IF lc[p] # NoTime
    THEN lc[p]
    ELSE Max(({created, default} \ {NoTime}) \cup {get_max_last_collected(t)})

\* db_api.project_lock: the acquisition raises DuplicateException when the
\* project already has a lock.
project_lock_raises(p) == project_locks[p] # NoOwner

\* db_api.project_lock: the lock record exists, under the owner's identity,
\* from the entry of the with block to its exit, however it is left.
project_lock_enter(p, owner) == [project_locks EXCEPT ![p] = owner]
project_lock_exit(p) == [project_locks EXCEPT ![p] = NoOwner]

\* db_api.usages_add: the entries and the new watermark of the project are
\* stored in one transaction.
usages_add_entries(entries) == usage_store \cup entries
usages_add_last_collected(p, watermark) == [last_collected EXCEPT ![p] = watermark]

(* ---- the cycle of one collector: CollectorService._collect_usage ---- *)

\* The locals of a collector between two cycles.
NoCycle ==
    [pc |-> "idle", valid_projects |-> <<>>, idx |-> 0, last_collect |-> NoTime,
     end |-> NoTime, processed_count |-> 0, success_count |-> 0,
     updated_count |-> 0, windows |-> <<>>, win |-> 0, mapping |-> 0,
     usage_entries |-> {}, collect_ret |-> "none", leave |-> "none",
     ret |-> "none", timer_alive |-> TRUE, yielded |-> FALSE,
     exc_logged |-> FALSE, had_windows |-> FALSE]

project(c) == svc[c].valid_projects[svc[c].idx]
window(c) == svc[c].windows[svc[c].win]

\* The position after the current project: the next one, or REPORT.
AfterProject(c) ==
    IF svc[c].idx + 1 > Len(svc[c].valid_projects) THEN "report" ELSE "get_project_locks"

\* CONF.collector.project_order of each collector process.
project_order(c) ==
    IF c % 3 = 0 THEN "random" ELSE IF c % 2 = 1 THEN "ascending" ELSE "descending"

\* Line 120-128: the processing orders the configured order allows.
_get_projects_by_order(c) ==
    IF project_order(c) = "ascending"
    THEN {[i \in 1..NumProjects |-> i]}
    ELSE IF project_order(c) = "descending"
         THEN {[i \in 1..NumProjects |-> NumProjects + 1 - i]}
         ELSE Perms(Projects)

\* Start of a cycle: discovery, filtering, get_last_collect, end, ordering.
StartCycle(c) ==
    /\ svc[c].pc = "idle"
    /\ svc[c].timer_alive
    /\ \E order \in _get_projects_by_order(c) :
          svc' = [svc EXCEPT ![c] = [@ EXCEPT
                    !.pc = "get_project_locks",
                    !.exc_logged = FALSE,
                    !.valid_projects = order,
                    !.idx = 1,
                    !.last_collect = get_last_collect(last_collected, Projects),
                    !.end = IF collect_end_time # NoTime THEN collect_end_time ELSE now]]
    /\ UNCHANGED <<env_vars, store_vars>>

\* An exception leaves the cycle body.
Raised(c) == [svc[c] EXCEPT !.pc = "raised"]

\* openstack.get_projects or db_api.get_last_collect raises.
StartCycleRaise(c) ==
    /\ svc[c].pc = "idle"
    /\ svc[c].timer_alive
    /\ svc' = [svc EXCEPT ![c] = Raised(c)]
    /\ UNCHANGED <<env_vars, store_vars>>

\* Line 186: the lock read shows another identity as the owner.
LockedByOther(c, p) == project_locks[p] \notin {NoOwner, c}

\* Line 185-191: read the lock; skip the project when another identity owns it.
GetProjectLocks(c) ==
    /\ svc[c].pc = "get_project_locks"
    /\ IF LockedByOther(c, project(c))
       THEN svc' = [svc EXCEPT ![c] = [@ EXCEPT
                      !.pc = AfterProject(c), !.idx = @ + 1, !.yielded = FALSE]]
       ELSE svc' = [svc EXCEPT ![c] = [@ EXCEPT !.pc = "project_lock"]]
    /\ UNCHANGED <<env_vars, store_vars>>

\* db_api.get_project_locks raises: nothing catches it inside the loop.
GetProjectLocksRaise(c) ==
    /\ svc[c].pc = "get_project_locks"
    /\ svc' = [svc EXCEPT ![c] = Raised(c)]
    /\ UNCHANGED <<env_vars, store_vars>>

\* Variant: the project is counted as processed before the acquisition.
OnDuplicateException_Counted(c) ==
    [svc[c] EXCEPT !.pc = AfterProject(c), !.idx = @ + 1, !.yielded = TRUE,
                   !.processed_count = @ + 1]

\* Variant: the handler of DuplicateException falls into the locked section.
OnDuplicateException_Enter(c) == [svc[c] EXCEPT !.pc = "project_add"]

\* Line 212-221: a DuplicateException at the acquisition is logged and the
\* loop goes on with the next project after the cooperative yield.
OnDuplicateException(c) ==
    [svc[c] EXCEPT !.pc = AfterProject(c), !.idx = @ + 1, !.yielded = TRUE]

\* Line 194-195: enter the locked section, or lose the race.
ProjectLock(c) ==
    /\ svc[c].pc = "project_lock"
    /\ IF ~project_lock_raises(project(c))
       THEN /\ project_locks' = project_lock_enter(project(c), c)
            /\ svc' = [svc EXCEPT ![c] = [@ EXCEPT
                         !.pc = "project_add", !.processed_count = @ + 1]]
       ELSE /\ svc' = [svc EXCEPT ![c] = OnDuplicateException(c)]
            /\ UNCHANGED project_locks
    /\ UNCHANGED <<env_vars, last_collected, usage_store, seed, committed>>

\* The acquisition raises something other than DuplicateException.
ProjectLockRaise(c) ==
    /\ svc[c].pc = "project_lock"
    /\ svc' = [svc EXCEPT ![c] = Raised(c)]
    /\ UNCHANGED <<env_vars, store_vars>>

\* Variant: project_add is called without the default watermark.
ProjectAddDefault_None(c) == NoTime

\* Line 198: the default watermark handed to project_add.
ProjectAddDefault(c) == svc[c].last_collect

\* Variant: the windows start at the cycle's get_last_collect result.
WindowsStart_Oldest(c, db_last_collected) ==
    IF svc[c].last_collect # NoTime THEN svc[c].last_collect ELSE db_last_collected

\* Line 199: the start of the first window.
WindowsStart(c, db_last_collected) == db_last_collected

\* Line 198-210: upsert the project, compute its windows, leave when there
\* are none, else hand them to collector.collect_usage.
ProjectAdd(c) ==
    /\ svc[c].pc = "project_add"
    /\ LET p == project(c)
           lc == project_add(last_collected, p, created_on[p], ProjectAddDefault(c), now)
           ws == get_windows(WindowsStart(c, lc), svc[c].end)
       IN /\ last_collected' = [last_collected EXCEPT ![p] = lc]
          /\ seed' = [seed EXCEPT ![p] = IF last_collected[p] = NoTime THEN lc ELSE @]
          /\ IF ws = <<>>
             THEN svc' = [svc EXCEPT ![c] = [@ EXCEPT
                            !.pc = "release", !.leave = "continue",
                            !.updated_count = @ + 1]]
             ELSE svc' = [svc EXCEPT ![c] = [@ EXCEPT
                            !.pc = "get_meter", !.windows = ws, !.win = 1,
                            !.mapping = 1, !.usage_entries = {},
                            !.had_windows = TRUE]]
    /\ UNCHANGED <<env_vars, project_locks, usage_store, committed>>

\* db_api.project_add raises inside the locked section: the lock is
\* released and the exception leaves the loop.
ProjectAddRaise(c) ==
    /\ svc[c].pc = "project_add"
    /\ svc' = [svc EXCEPT ![c] = [@ EXCEPT !.pc = "release", !.leave = "raise"]]
    /\ UNCHANGED <<env_vars, store_vars>>

(* ---- one window at a time: BaseCollector.collect_usage ---- *)

\* Line 72-81: one mapping of the current window is fetched, grouped and
\* transformed; its entries are appended to the window's usage_entries.
GetMeter(c) ==
    /\ svc[c].pc = "get_meter"
    /\ LET entry == <<project(c), window(c)[1], window(c)[2], svc[c].mapping>>
       IN IF svc[c].mapping < NumMappings
          THEN svc' = [svc EXCEPT ![c] = [@ EXCEPT
                         !.usage_entries = @ \cup {entry}, !.mapping = @ + 1]]
          ELSE svc' = [svc EXCEPT ![c] = [@ EXCEPT
                         !.usage_entries = @ \cup {entry}, !.pc = "usages_add"]]
    /\ UNCHANGED <<env_vars, store_vars>>

\* Variant: the entries built before the exception are stored.
PersistedOnException_Partial(entries) == entries

\* Line 90-98: what a window that raised leaves in the store.
PersistedOnException(entries) == {}

\* Variant: a window that raised is logged and the next window is tried.
OnWindowException_Continue(c) ==
    IF svc[c].win < Len(svc[c].windows)
    THEN [svc[c] EXCEPT !.win = @ + 1, !.mapping = 1, !.usage_entries = {},
                        !.pc = "get_meter"]
    ELSE [svc[c] EXCEPT !.pc = "release", !.leave = "sleep", !.collect_ret = "False"]

\* Line 90-98: a window that raised ends collect_usage with False; the
\* remaining windows are not attempted.
OnWindowException(c) ==
    [svc[c] EXCEPT !.pc = "release", !.leave = "sleep", !.collect_ret = "False"]

\* The window fails: get_meter, a transformation or usages_add raises.
WindowRaise(c) ==
    /\ svc[c].pc \in {"get_meter", "usages_add"}
    /\ usage_store' = usages_add_entries(PersistedOnException(svc[c].usage_entries))
    /\ svc' = [svc EXCEPT ![c] = OnWindowException(c)]
    /\ UNCHANGED <<env_vars, project_locks, last_collected, seed, committed>>

\* Variant: the window's start is committed as the watermark.
CommitWatermark_Start(w) == w[1]

\* Line 85-86: the watermark committed with a window.
CommitWatermark(w) == w[2]

\* Line 64, 100 and 210-211: after a commit the next window follows; after
\* the last one collect_usage returns True and the project counts as a success.
AfterCommit(c) ==
    IF svc[c].win < Len(svc[c].windows)
    THEN [svc[c] EXCEPT !.win = @ + 1, !.mapping = 1, !.usage_entries = {},
                        !.pc = "get_meter"]
    ELSE [svc[c] EXCEPT !.collect_ret = "True", !.success_count = @ + 1,
                        !.usage_entries = {}, !.leave = "sleep", !.pc = "release"]

\* Line 85-86: usages_add commits the window's entries and the watermark in
\* one transaction.
UsagesAdd(c) ==
    /\ svc[c].pc = "usages_add"
    /\ usage_store' = usages_add_entries(svc[c].usage_entries)
    /\ last_collected' = usages_add_last_collected(project(c), CommitWatermark(window(c)))
    /\ committed' = [committed EXCEPT ![project(c)] = Append(@, window(c))]
    /\ svc' = [svc EXCEPT ![c] = AfterCommit(c)]
    /\ UNCHANGED <<env_vars, project_locks, seed>>

(* ---- leaving the locked section, REPORT, and the periodic entry point ---- *)

\* Variant: an exception raised inside the locked section leaves the lock
\* in the store.
Release_KeepOnRaise(c) ==
    /\ svc[c].pc = "release"
    /\ project_locks' = IF svc[c].leave = "raise"
                        THEN project_locks ELSE project_lock_exit(project(c))
    /\ LET r == [svc[c] EXCEPT !.windows = <<>>, !.win = 0, !.mapping = 0,
                               !.usage_entries = {}, !.collect_ret = "none",
                               !.leave = "none"]
       IN IF svc[c].leave = "raise"
          THEN svc' = [svc EXCEPT ![c] = [r EXCEPT !.pc = "raised"]]
          ELSE svc' = [svc EXCEPT ![c] = [r EXCEPT
                         !.pc = AfterProject(c), !.idx = @ + 1,
                         !.yielded = (svc[c].leave = "sleep")]]
    /\ UNCHANGED <<env_vars, last_collected, usage_store, seed, committed>>

\* Line 194 (exit of the with block), 208, 221: the lock is released; a
\* project that was up to date continues with the next one, a collected
\* one yields first, an exception leaves the loop.
Release(c) ==
    /\ svc[c].pc = "release"
    /\ project_locks' = project_lock_exit(project(c))
    /\ LET r == [svc[c] EXCEPT !.windows = <<>>, !.win = 0, !.mapping = 0,
                               !.usage_entries = {}, !.collect_ret = "none",
                               !.leave = "none"]
       IN IF svc[c].leave = "raise"
          THEN svc' = [svc EXCEPT ![c] = [r EXCEPT !.pc = "raised"]]
          ELSE svc' = [svc EXCEPT ![c] = [r EXCEPT
                         !.pc = AfterProject(c), !.idx = @ + 1,
                         !.yielded = (svc[c].leave = "sleep")]]
    /\ UNCHANGED <<env_vars, last_collected, usage_store, seed, committed>>

\* Variant: the configured end time is not looked at.
OneShotDone_AnyMode(c) == svc[c].updated_count = svc[c].processed_count

\* Line 239-242: the one-shot condition.
OneShotDone(c) ==
    collect_end_time # NoTime /\ svc[c].updated_count = svc[c].processed_count

\* Line 223-246: REPORT; in one-shot mode the service stops and the process
\* is killed, else _collect_usage returns True.
Report(c) ==
    /\ svc[c].pc = "report"
    /\ IF OneShotDone(c)
       THEN svc' = [svc EXCEPT ![c] = [NoCycle EXCEPT
                      !.pc = "killed", !.timer_alive = FALSE, !.ret = svc[c].ret]]
       ELSE svc' = [svc EXCEPT ![c] = [NoCycle EXCEPT !.ret = "True"]]
    /\ UNCHANGED <<env_vars, store_vars>>

\* Variant: the exception is logged and raised again.
HandlerReturns_Reraise == "raise"

\* Line 133-142: what the periodic collect_usage does with an exception of
\* the cycle body: it is logged and True is returned.
HandlerReturns == "True"

\* Line 135-142 of the periodic collect_usage; an exception that left it
\* would end the timer loop.
Handler(c) ==
    /\ svc[c].pc = "raised"
    /\ svc' = [svc EXCEPT ![c] = [NoCycle EXCEPT
                 !.ret = HandlerReturns,
                 !.exc_logged = TRUE,
                 !.timer_alive = (HandlerReturns # "raise")]]
    /\ UNCHANGED <<env_vars, store_vars>>

\* Time passes.
Tick ==
    /\ now < MaxTime
    /\ now' = now + 1
    /\ UNCHANGED <<collect_end_time, created_on, store_vars, svc, base, xform, sink>>

(* ---- the system ---- *)

\* Nothing is collected, transformed or measured outside a cycle.
NoWindow == [pc |-> "none"]
NoCall == [pc |-> "none"]
NoSink == [pc |-> "none"]

\* The projects the store knows at the start, and their watermark.
StoredAtStart == {1}
StoredWatermark == StartTime - 1

Init ==
    /\ now = StartTime
    /\ collect_end_time = NoTime
    /\ created_on \in [Projects -> {NoTime, StartTime}]
    /\ \A p \in StoredAtStart : created_on[p] = NoTime
    /\ project_locks = [p \in Projects |-> NoOwner]
    /\ last_collected = [p \in Projects |-> IF p \in StoredAtStart THEN StoredWatermark ELSE NoTime]
    /\ seed = [p \in Projects |-> IF p \in StoredAtStart THEN StoredWatermark ELSE NoTime]
    /\ usage_store = {}
    /\ committed = [p \in Projects |-> <<>>]
    /\ svc = [c \in Collectors |-> NoCycle]
    /\ base = NoWindow
    /\ xform = NoCall
    /\ sink = NoSink

Next ==
    \/ Tick
    \/ \E c \in Collectors : StartCycle(c)
    \/ \E c \in Collectors : StartCycleRaise(c)
    \/ \E c \in Collectors : GetProjectLocks(c)
    \/ \E c \in Collectors : GetProjectLocksRaise(c)
    \/ \E c \in Collectors : ProjectLock(c)
    \/ \E c \in Collectors : ProjectLockRaise(c)
    \/ \E c \in Collectors : ProjectAdd(c)
    \/ \E c \in Collectors : ProjectAddRaise(c)
    \/ \E c \in Collectors : GetMeter(c)
    \/ \E c \in Collectors : WindowRaise(c)
    \/ \E c \in Collectors : UsagesAdd(c)
    \/ \E c \in Collectors : Release(c)
    \/ \E c \in Collectors : Report(c)
    \/ \E c \in Collectors : Handler(c)

Spec == Init /\ [][Next]_vars

(* ---- properties ---- *)

Range(f) == {f[i] : i \in DOMAIN f}

\* The positions inside the with block of line 194.
LockedSection == {"project_add", "get_meter", "usages_add", "release"}
InLockedSection(c) == svc[c].pc \in LockedSection
Collecting(c) == svc[c].pc \in {"get_meter", "usages_add"}

\* C1: no two distinct collectors are inside the locked section of the same
\* project at the same time, and the collector inside is the owner the
\* store records for the project's lock.
C1_MutualExclusion ==
    /\ \A c1, c2 \in Collectors :
          (c1 # c2 /\ InLockedSection(c1) /\ InLockedSection(c2))
             => project(c1) # project(c2)
    /\ \A c \in Collectors : InLockedSection(c) => project_locks[project(c)] = c

\* C1 witness: one collector is inside the locked section of a project
\* while another, having read the lock as free, is about to acquire it.
C1_Witness ==
    \E c1, c2 \in Collectors :
        /\ c1 # c2
        /\ InLockedSection(c1)
        /\ svc[c2].pc = "project_lock"
        /\ project(c2) = project(c1)

\* C2: no step sets the stored watermark of a project to an earlier
\* timestamp than the one already stored.
C2_WatermarkMonotone ==
    [][\A p \in Projects :
          last_collected[p] # NoTime => last_collected'[p] >= last_collected[p]]_vars

\* C2 witness: a project whose watermark two commits have advanced is
\* processed again in a later cycle.
C2_Witness ==
    \E p \in Projects :
        /\ Len(committed[p]) >= 2
        /\ last_collected[p] > seed[p] + collect_window
        /\ \E c \in Collectors : InLockedSection(c) /\ project(c) = p /\ svc[c].win = 1

\* C3: the store holds the entries of every mapping for exactly the windows
\* that were committed and nothing of any other window, and each watermark
\* is the end of the project's last committed window (the seed when none).
C3_AllOrNothing ==
    /\ usage_store =
          UNION {{<<p, committed[p][i][1], committed[p][i][2], m>> : m \in meter_mappings,
                                                                     i \in DOMAIN committed[p]}
                 : p \in Projects}
    /\ \A p \in Projects :
          last_collected[p] =
             IF committed[p] = <<>> THEN seed[p] ELSE committed[p][Len(committed[p])][2]

\* C3 witness: a window raised after a mapping had been processed; its
\* entries are not in the store.
C3_Witness ==
    \E c \in Collectors :
        /\ svc[c].pc = "release"
        /\ svc[c].collect_ret = "False"
        /\ svc[c].usage_entries # {}
        /\ svc[c].usage_entries \cap usage_store = {}
        /\ last_collected[project(c)] = window(c)[1]

\* C4: no window is committed twice, and every window being collected ends
\* after the project's watermark.
C4_CommittedOnce ==
    /\ \A p \in Projects : \A i, j \in DOMAIN committed[p] :
          committed[p][i] = committed[p][j] => i = j
    /\ \A c \in Collectors :
          Collecting(c) => window(c)[2] > last_collected[project(c)]

\* C4 witness: a collector collects a window of a project of which another
\* window was committed in an earlier cycle.
C4_Witness ==
    \E c \in Collectors :
        /\ Collecting(c)
        /\ svc[c].win = 1
        /\ committed[project(c)] # <<>>
        /\ window(c)[1] = last_collected[project(c)]

\* C5: the committed windows of a project start at its seed and each starts
\* where the previous one ended, in increasing time order.
C5_Contiguous ==
    \A p \in Projects :
        /\ committed[p] # <<>> => committed[p][1][1] = seed[p]
        /\ \A i \in DOMAIN committed[p] :
              /\ committed[p][i][1] < committed[p][i][2]
              /\ i > 1 => committed[p][i][1] = committed[p][i - 1][2]

\* C5 witness: a project seeded in this run has two committed windows.
C5_Witness ==
    \E p \in Projects \ StoredAtStart :
        /\ Len(committed[p]) >= 2
        /\ committed[p][1][1] = seed[p]

\* C6: when collect_usage has returned, True means every window of the list
\* is committed and the watermark is the end of the last; False means the
\* windows before the failed one are committed with the watermark at the
\* failed window's start, and neither it nor a later window is committed.
C6_CollectUsageResult ==
    \A c \in Collectors :
        (svc[c].pc = "release" /\ svc[c].collect_ret # "none") =>
            LET p == project(c)
                ws == svc[c].windows
                i == svc[c].win
            IN /\ svc[c].collect_ret = "True" =>
                    /\ Range(ws) \subseteq Range(committed[p])
                    /\ last_collected[p] = ws[Len(ws)][2]
               /\ svc[c].collect_ret = "False" =>
                    /\ \A k \in 1..(i - 1) : ws[k] \in Range(committed[p])
                    /\ \A k \in i..Len(ws) : ws[k] \notin Range(committed[p])
                    /\ last_collected[p] = ws[i][1]

\* C6 witness: the second window of a call raised after the first one was
\* committed.
C6_Witness ==
    \E c \in Collectors :
        /\ svc[c].pc = "release"
        /\ svc[c].collect_ret = "False"
        /\ svc[c].win = 2
        /\ svc[c].windows[1] \in Range(committed[project(c)])

\* C7: an exception leaves the cycle body only before the loop over the
\* projects has started: no failure met while a project is handled ends
\* the cycle before REPORT with later projects unattempted.
C7_ProjectFailureNeverAbortsCycle ==
    \A c \in Collectors : svc[c].pc = "raised" => svc[c].idx = 0

\* C8: the periodic collect_usage has never let an exception out: its
\* return value is True, also after a cycle that raised and was logged, and
\* the timer loop of a collector that was not killed still runs.
C8_NeverPropagates ==
    \A c \in Collectors :
        /\ svc[c].ret \in {"none", "True"}
        /\ svc[c].timer_alive \/ svc[c].pc = "killed"
        /\ svc[c].exc_logged => (svc[c].ret = "True" /\ svc[c].timer_alive)

\* C8 witness: a cycle raised, the exception was logged, True was returned
\* and the collector waits for the next interval.
C8_Witness ==
    \E c \in Collectors :
        /\ svc[c].pc = "idle"
        /\ svc[c].exc_logged
        /\ svc[c].ret = "True"
        /\ svc[c].timer_alive

\* A collector that is about to find its project locked by another identity.
Contended(c) ==
    \/ svc[c].pc = "get_project_locks" /\ LockedByOther(c, project(c))
    \/ svc[c].pc = "project_lock" /\ project_lock_raises(project(c))

\* C9: the step a collector takes on a lock owned by another identity, or
\* on a DuplicateException, changes nothing in the store and none of its
\* counters, and takes it to the next project (or to REPORT) at once.
C9_ContentionSkips ==
    [][\A c \in Collectors :
          (Contended(c) /\ svc'[c] # svc[c] /\ svc'[c].pc # "raised") =>
              /\ UNCHANGED store_vars
              /\ svc'[c].processed_count = svc[c].processed_count
              /\ svc'[c].success_count = svc[c].success_count
              /\ svc'[c].updated_count = svc[c].updated_count
              /\ svc'[c].idx = svc[c].idx + 1
              /\ svc'[c].pc = AfterProject(c)
              /\ svc'[c].windows = <<>>]_vars

\* C9 witness: a collector lost the race for its first project and stands
\* at the second one with nothing counted as processed.
C9_Witness ==
    \E c \in Collectors :
        /\ svc[c].pc = "get_project_locks"
        /\ svc[c].idx = 2
        /\ svc[c].yielded
        /\ svc[c].processed_count = 0
        /\ project_locks[svc[c].valid_projects[1]] \notin {NoOwner, c}

\* The newest of the candidates that are known.
IsNewestOf(t, candidates) ==
    /\ t \in candidates \ {NoTime}
    /\ \A x \in candidates \ {NoTime} : x <= t

\* C10: the upsert of a project that is not stored sets its watermark to
\* the newest of its creation timestamp, the oldest watermark of the stored
\* projects as read at the start of the cycle, and now minus
\* max_collection_start_age, hence to the creation timestamp when that is
\* the newest; the upsert of a stored project leaves its watermark unchanged.
C10_NewProjectSeed ==
    [][\A c \in Collectors :
          /\ (svc[c].pc = "idle" /\ svc'[c].pc = "get_project_locks") =>
                IF \A p \in Projects : last_collected[p] = NoTime
                THEN svc'[c].last_collect = NoTime
                ELSE /\ \E p \in Projects : svc'[c].last_collect = last_collected[p]
                     /\ \A p \in Projects :
                           last_collected[p] # NoTime => svc'[c].last_collect <= last_collected[p]
          /\ (svc[c].pc = "project_add" /\ svc'[c].pc \in {"get_meter", "release"}
                /\ svc'[c].leave # "raise") =>
                LET p == project(c)
                    ceiling == now - max_collection_start_age
                IN IF last_collected[p] = NoTime
                   THEN /\ IsNewestOf(last_collected'[p],
                                      {created_on[p], svc[c].last_collect, ceiling})
                        /\ (created_on[p] > ceiling /\ created_on[p] >= svc[c].last_collect)
                              => last_collected'[p] = created_on[p]
                   ELSE last_collected'[p] = last_collected[p]]_vars

\* C10 witness: a new project was seeded at its creation timestamp, which
\* is newer than the lookback ceiling and than the oldest stored watermark.
C10_Witness ==
    \E c \in Collectors :
        /\ svc[c].pc \in {"get_meter", "release"}
        /\ project(c) \notin StoredAtStart
        /\ committed[project(c)] = <<>>
        /\ seed[project(c)] = created_on[project(c)]
        /\ last_collected[project(c)] = created_on[project(c)]
        /\ created_on[project(c)] > now - max_collection_start_age
        /\ created_on[project(c)] > svc[c].last_collect

(* ---- one-shot backfill: the cycles with a hard end time configured ---- *)

\* CONF.collect_end_time when it is configured.
EndTimes == {NoTime, MaxTime}

\* The start of the service with or without a hard end time.
InitOneShot ==
    /\ now = StartTime
    /\ collect_end_time \in EndTimes
    /\ created_on = [p \in Projects |-> NoTime]
    /\ project_locks = [p \in Projects |-> NoOwner]
    /\ last_collected = [p \in Projects |-> IF p \in StoredAtStart THEN StoredWatermark ELSE NoTime]
    /\ seed = [p \in Projects |-> IF p \in StoredAtStart THEN StoredWatermark ELSE NoTime]
    /\ usage_store = {}
    /\ committed = [p \in Projects |-> <<>>]
    /\ svc = [c \in Collectors |-> NoCycle]
    /\ base = NoWindow
    /\ xform = NoCall
    /\ sink = NoSink

SpecOneShot == InitOneShot /\ [][Next]_vars

\* C11: the step that ends a cycle at REPORT stops the service and kills
\* the process exactly when a hard end time is configured and no project
\* processed in the cycle had a window to collect; the process is killed by
\* no other step, and otherwise the cycle returns True and the timer runs on.
C11_OneShotStop ==
    [][\A c \in Collectors :
          /\ (svc[c].pc = "report" /\ svc'[c].pc # "report") =>
                /\ (svc'[c].pc = "killed") <=>
                       (collect_end_time # NoTime /\ ~svc[c].had_windows)
                /\ svc'[c].pc = "killed" => ~svc'[c].timer_alive
                /\ svc'[c].pc # "killed" =>
                       (svc'[c].pc = "idle" /\ svc'[c].ret = "True" /\ svc'[c].timer_alive)
          /\ (svc[c].pc # "killed" /\ svc'[c].pc = "killed") => svc[c].pc = "report"]_vars

\* C11 witness: with a hard end time, windows were committed in cycles that
\* returned, and a collector was killed when every project had reached the
\* end time.
C11_Witness ==
    /\ collect_end_time # NoTime
    /\ \E c \in Collectors : svc[c].pc = "killed"
    /\ \E c \in Collectors : svc[c].ret = "True"
    /\ \A p \in Projects : last_collected[p] = collect_end_time
    /\ \A p \in Projects : committed[p] # <<>>

(* ---- samples and the transformers: transformer/arithmetic.py, conversion.py ---- *)

\* Python's None as the volume of a sample, and a metadata key (or an
\* optional setting) that is not there.
None == -1
Absent == "<absent>"

SecondsPerHour == 3600

\* A raw sample as get_meter returns it; the metadata keys are those the
\* transformers, the filters and the volume sources of the model read. A
\* resource id is the sequence of the pieces of its string.
Sample0 ==
    [resource_id |-> <<"r1">>, source |-> "openstack", volume |-> 1, timestamp |-> 0,
     status |-> Absent, state |-> Absent, instance_type |-> Absent,
     image_ref |-> Absent, root_gb |-> Absent, node_count |-> Absent,
     alt_count |-> Absent, volume_type |-> Absent]

\* entry['metadata'][key], Absent on a KeyError.
metadata(sample, key) ==
    CASE key = "status" -> sample.status
      [] key = "state" -> sample.state
      [] key = "instance_type" -> sample.instance_type
      [] key = "image_ref" -> sample.image_ref
      [] key = "root_gb" -> sample.root_gb
      [] key = "node_count" -> sample.node_count
      [] key = "alt_count" -> sample.alt_count
      [] key = "volume_type" -> sample.volume_type
      [] OTHER -> Absent

\* float(value) of a metadata string: the number it spells, None standing
\* for the ValueError of a string that spells no number.
float(value) ==
    CASE value = "1" -> 1
      [] value = "2" -> 2
      [] value = "5" -> 5
      [] OTHER -> None

\* str.upper() on the state names of the model.
upper(str) ==
    CASE str = "active" -> "ACTIVE"
      [] str = "stopped" -> "STOPPED"
      [] OTHER -> str

\* What a transformer returns: a dict service -> volume as a set of pairs,
\* Python's None, or an exception.
Dict(items) == [kind |-> "dict", items |-> items]
ReturnsNone == [kind |-> "none", items |-> {}]
Raises == [kind |-> "raise", items |-> {}]

\* The volumes of a sample list, in order.
Volumes(data) == [i \in DOMAIN data |-> data[i].volume]

\* Arithmetic line 60, 86, 142: (end - start).total_seconds() / 3600.0; the
\* windows of the collector are whole hours, so the quotient is exact.
hours(start, end) == (end - start) \div SecondsPerHour

\* Conversion line 114, 133: (end - start).total_seconds() // 3600.0.
whole_hours(start, end) == (end - start) \div SecondsPerHour

\* NumboolTransformer._transform_usage.
numbool(meter_name, raw_data, start_at, end_at) ==
    IF \E i \in DOMAIN raw_data : raw_data[i].volume # None /\ raw_data[i].volume > 0
    THEN Dict({<<meter_name, 1>>})
    ELSE Dict({<<meter_name, 0>>})

\* MaxTransformer._get_max_vol: None counts as 0.
_get_max_vol(data) ==
    IF Len(data) > 0
    THEN Max({IF data[i].volume # None THEN data[i].volume ELSE 0 : i \in DOMAIN data})
    ELSE 0

\* MaxTransformer._transform_usage.
max(meter_name, raw_data, start_at, end_at) ==
    Dict({<<meter_name, _get_max_vol(raw_data) * hours(start_at, end_at)>>})

\* BlockStorageMaxTransformer and ObjectStorageMaxTransformer: lookup is the
\* name the external lookup (volume type name, container policy) gives, Absent
\* when it gives none or the sample has no volume_type.
storagemax(name, data, start, end, lookup) ==
    IF Len(data) = 0
    THEN ReturnsNone
    ELSE Dict({<<IF lookup # Absent THEN lookup ELSE name,
                 _get_max_vol(data) * hours(start, end)>>})

RECURSIVE SumSeq(_)
SumSeq(q) == IF q = <<>> THEN 0 ELSE Head(q) + SumSeq(Tail(q))

\* SumTransformer._transform_usage: the samples stamped inside [start, end),
\* None counting as 0.
sum(meter_name, raw_data, start_at, end_at) ==
    LET vol(i) == IF raw_data[i].timestamp >= start_at /\ raw_data[i].timestamp < end_at
                     /\ raw_data[i].volume # None
                  THEN raw_data[i].volume ELSE 0
    IN Dict({<<meter_name, SumSeq([i \in DOMAIN raw_data |-> vol(i)])>>})

\* UpTimeTransformer.tracked_states: the configured states, upper-cased.
tracked_states == {upper(state) : state \in {"active"}}

\* UpTimeTransformer.get_state: metadata 'status', else 'state', else "".
get_state(sample) ==
    upper(IF sample.status # Absent THEN sample.status
          ELSE IF sample.state # Absent THEN sample.state ELSE "")

\* UpTimeTransformer.get_flavor.
get_flavor(sample) == sample.instance_type

\* "{}{}".format(service_prefix, flavor) on the names of the model.
format(service_prefix, flavor) ==
    CASE service_prefix = "db." /\ flavor = "c1" -> "db.c1"
      [] service_prefix = "db." /\ flavor = "c2" -> "db.c2"
      [] OTHER -> flavor

\* Variant: the window is shared out by the number of tracked samples.
UpTimeShare_PerSample(data, sampled_flavors) ==
    Cardinality({i \in DOMAIN data : get_state(data[i]) \in tracked_states})

\* Line 76: the number the window length is divided by.
UpTimeShare(data, sampled_flavors) == Cardinality(sampled_flavors)

\* UpTimeTransformer._transform_usage; prefix is config.get("prefix") or "".
uptime(name, data, start, end, prefix) ==
    LET sampled_flavors ==
            {get_flavor(data[i]) :
                i \in {j \in DOMAIN data :
                          /\ get_state(data[j]) \in tracked_states
                          /\ get_flavor(data[j]) \notin {Absent, ""}}}
        service_prefix == IF prefix = Absent THEN "" ELSE prefix
    IN IF sampled_flavors = {}
       THEN Dict({})
       ELSE Dict({<<format(service_prefix, flavor),
                    (end - start) \div UpTimeShare(data, sampled_flavors)>> :
                  flavor \in sampled_flavors})

\* The configuration of the fromimage transformer.
md_keys == <<"image_ref">>
none_values == {"None", ""}
size_keys == <<"root_gb">>
fromimage_service == "volume.size"

\* FromImageTransformer, line 99-105: the first md key the entry has says
\* "not booted from an image".
NotFromImage(entry) ==
    \E i \in DOMAIN md_keys :
        /\ metadata(entry, md_keys[i]) \in none_values
        /\ \A j \in 1..(i - 1) : metadata(entry, md_keys[j]) = Absent

\* FromImageTransformer, line 106-112: float() of a size the entry has raises.
BadSize(entry) ==
    \E i \in DOMAIN size_keys :
        /\ metadata(entry, size_keys[i]) # Absent
        /\ float(metadata(entry, size_keys[i])) = None

\* FromImageTransformer._transform_usage: the entries are read in order; the
\* first one that is not from an image, or has a bad size, ends the call.
fromimage(name, data, start, end) ==
    LET stops == {i \in DOMAIN data : NotFromImage(data[i]) \/ BadSize(data[i])}
        sizes == {float(metadata(data[i], size_keys[k])) :
                     i \in {j \in DOMAIN data : TRUE},
                     k \in {l \in DOMAIN size_keys : TRUE}} \ {None}
        size == Max(sizes \cup {0})
    IN IF stops # {}
       THEN IF NotFromImage(data[Min(stops)]) THEN ReturnsNone ELSE Raises
       ELSE Dict({<<fromimage_service, size * whole_hours(start, end)>>})

\* Conversion line 132: max(volumes) if len(volumes) else 0, where None
\* sorts below every number.
BelowCeilingVolume(volumes) ==
    IF Len(volumes) = 0 THEN 0 ELSE Max({volumes[i] : i \in DOMAIN volumes})

\* NetworkServiceTransformer._transform_usage (line 130-134): under Python 2,
\* which the tests are written for, None < 2 holds,
\* so a None volume is kept, and None * hours raises TypeError.
networkservice(name, data, start, end) ==
    LET volumes == SelectSeq(Volumes(data), LAMBDA v : v < 2)
        max_vol == BelowCeilingVolume(volumes)
    IN IF max_vol = None
       THEN Raises
       ELSE Dict({<<name, max_vol * whole_hours(start, end)>>})

\* get_transformer(name).transform_usage(service, data, start, end); lookup
\* and prefix are what the external lookup and the configuration give.
transform_usage(transformer, name, data, start, end, lookup, prefix) ==
    CASE transformer = "numbool" -> numbool(name, data, start, end)
      [] transformer = "max" -> max(name, data, start, end)
      [] transformer = "blockstoragemax" -> storagemax(name, data, start, end, lookup)
      [] transformer = "objectstoragemax" -> storagemax(name, data, start, end, lookup)
      [] transformer = "sum" -> sum(name, data, start, end)
      [] transformer = "uptime" -> uptime(name, data, start, end, prefix)
      [] transformer = "fromimage" -> fromimage(name, data, start, end)
      [] transformer = "networkservice" -> networkservice(name, data, start, end)

(* ---- one call of a transformer ---- *)

MaxSamples == 2

\* The sequences over S of at most n elements.
SeqsUpTo(S, n) == UNION {[1..k -> S] : k \in 0..n}

Transformers ==
    {"numbool", "max", "blockstoragemax", "objectstoragemax", "sum", "uptime",
     "fromimage", "networkservice"}

\* The samples a transformer is called with: the fields it reads vary.
SamplesFor(transformer) ==
    CASE transformer = "sum" ->
           {[Sample0 EXCEPT !.volume = v, !.timestamp = t] :
               v \in {None, 1, 2}, t \in {0, SecondsPerHour \div 2, SecondsPerHour}}
      [] transformer = "uptime" ->
           {[Sample0 EXCEPT !.volume = v, !.status = st, !.state = s, !.instance_type = f] :
               v \in {None, 1}, st \in {Absent, "active", "stopped"},
               s \in {Absent, "active"}, f \in {Absent, "", "c1", "c2"}}
      [] transformer = "fromimage" ->
           {[Sample0 EXCEPT !.volume = v, !.image_ref = r, !.root_gb = g] :
               v \in {None, 1}, r \in {Absent, "None", "img"}, g \in {Absent, "1", "2"}}
      [] OTHER ->
           {[Sample0 EXCEPT !.volume = v] : v \in {None, 0, 1, 2, 3}}

\* What the external lookup and the configuration may give a transformer.
LookupsFor(transformer) ==
    IF transformer \in {"blockstoragemax", "objectstoragemax"}
    THEN {Absent, "b1.standard"} ELSE {Absent}

PrefixesFor(transformer) == IF transformer = "uptime" THEN {Absent, "db."} ELSE {Absent}

\* The calls of transform_usage: a transformer, a service name, a sample
\* list and a window of whole hours.
Calls ==
    UNION {{[pc |-> "call", transformer |-> t, name |-> "meter", data |-> d,
             start |-> 0, end |-> e, lookup |-> l, prefix |-> x, result |-> ReturnsNone] :
               d \in SeqsUpTo(SamplesFor(t), MaxSamples),
               e \in {SecondsPerHour, 2 * SecondsPerHour},
               l \in LookupsFor(t), x \in PrefixesFor(t)}
           : t \in Transformers}

\* Base line 282-284: the transformer is called and returns or raises.
TransformUsage ==
    /\ xform.pc = "call"
    /\ xform' = [xform EXCEPT
                   !.pc = "done",
                   !.result = transform_usage(xform.transformer, xform.name, xform.data,
                                              xform.start, xform.end, xform.lookup,
                                              xform.prefix)]
    /\ UNCHANGED <<cycle_vars, base, sink>>

InitTransformer ==
    /\ now = StartTime
    /\ collect_end_time = NoTime
    /\ created_on = [p \in Projects |-> NoTime]
    /\ project_locks = [p \in Projects |-> NoOwner]
    /\ last_collected = [p \in Projects |-> NoTime]
    /\ seed = [p \in Projects |-> NoTime]
    /\ usage_store = {}
    /\ committed = [p \in Projects |-> <<>>]
    /\ svc = [c \in Collectors |-> NoCycle]
    /\ base = NoWindow
    /\ sink = NoSink
    /\ xform \in Calls

NextTransformer == TransformUsage

SpecTransformer == InitTransformer /\ [][NextTransformer]_vars

\* A call has returned (or raised) and every sample of it had volume None.
AllNullCall ==
    /\ xform.pc = "done"
    /\ Len(xform.data) > 0
    /\ \A i \in DOMAIN xform.data : xform.data[i].volume = None

\* C17: a sample list in which every volume is None is transformed without
\* an exception by every transformer, and the transformers that rate the
\* volume (presence-boolean, the max-integrations, sum-integration,
\* threshold-state-sum) emit 0 for it.
C17_VolumeNullSafe ==
    AllNullCall =>
        /\ xform.result.kind # "raise"
        /\ xform.transformer \notin {"uptime", "fromimage"} =>
              \A item \in xform.result.items : item[2] = 0

\* C18: the threshold-state-sum transformer emits, for a sample list whose
\* volumes are numbers, exactly one fact under the given name: the sum of
\* the volumes below 2 times the whole hours of the window.
C18_ThresholdStateSum ==
    (/\ xform.pc = "done"
     /\ xform.transformer = "networkservice"
     /\ \A i \in DOMAIN xform.data : xform.data[i].volume # None) =>
        LET below == SelectSeq(Volumes(xform.data), LAMBDA v : v < 2)
        IN xform.result =
              Dict({<<xform.name,
                      SumSeq(below) * ((xform.end - xform.start) \div SecondsPerHour)>>})

\* The flavors, not empty, of the samples of the call whose state is tracked.
TrackedFlavors ==
    {xform.data[i].instance_type :
        i \in {j \in DOMAIN xform.data :
                  /\ upper(IF xform.data[j].status # Absent THEN xform.data[j].status
                           ELSE xform.data[j].state) = "ACTIVE"
                  /\ xform.data[j].instance_type \notin {Absent, ""}}}

re_match(pattern, source) ==
    CASE pattern = "openstack" -> source \in {"openstack", "openstack:user"}
      [] pattern = ".*:user" -> source = "openstack:user"
      [] pattern = "rogue" -> source = "rogue"
      [] OTHER -> FALSE

\* Variant: without the test that patterns are configured.
Untrusted_NoEmptyTest(trust_sources, u) ==
    \A i \in DOMAIN trust_sources : ~re_match(trust_sources[i], u.source)

\* Line 110-112: patterns are configured and none matches the source.
Untrusted(trust_sources, u) ==
    /\ Len(trust_sources) > 0
    /\ \A i \in DOMAIN trust_sources : ~re_match(trust_sources[i], u.source)

\* The resource ids of a sample list in the order of their first sample.
RECURSIVE FirstSeen(_)
FirstSeen(usage) ==
    IF usage = <<>>
    THEN <<>>
    ELSE LET before == FirstSeen(SubSeq(usage, 1, Len(usage) - 1))
             id == usage[Len(usage)].resource_id
         IN IF \E i \in DOMAIN before : before[i] = id THEN before ELSE Append(before, id)

\* _filter_and_group: the trusted samples grouped by resource id, as the
\* sequence of the (resource id, samples) items of usage_by_resource.
_filter_and_group(trust_sources, usage) ==
    LET kept == SelectSeq(usage, LAMBDA u : ~Untrusted(trust_sources, u))
        ids == FirstSeen(kept)
    IN [i \in DOMAIN ids |->
          <<ids[i], SelectSeq(kept, LAMBDA u : u.resource_id = ids[i])>>]

\* jmespath.search(filter, sample) is truthy, for the filters of the model.
filter_result(filter, sample) ==
    CASE filter = "metadata.status != 'CREATE_FAILED'" -> sample.status # "CREATE_FAILED"
      [] filter = "volume" -> sample.volume \notin {None, 0}
      [] OTHER -> FALSE

\* Variant: a sample passes when one filter accepts it.
_sample_filter_Any(filters, sample) ==
    \E i \in DOMAIN filters : filter_result(filters[i], sample)

\* _sample_filter: every filter gives a truthy result.
_sample_filter(filters, sample) ==
    \A i \in DOMAIN filters : filter_result(filters[i], sample)

\* jmespath.search(expression, sample) for the volume sources of the model:
\* the metadata value, Absent for null.
jmespath_search(search_expr, sample) ==
    CASE search_expr = "metadata.node_count" -> sample.node_count
      [] search_expr = "metadata.alt_count" -> sample.alt_count
      [] OTHER -> Absent

\* Line 353-355: the index of the first expression that yields a value, 0
\* when none does.
FirstMatch(expressions, sample) ==
    LET found == {i \in DOMAIN expressions : jmespath_search(expressions[i], sample) # Absent}
    IN IF found = {} THEN 0 ELSE Min(found)

\* Variant: the search is optional and gives the default 0.
SearchFailed_Default == [raises |-> FALSE, value |-> 0]

\* Line 356-375 and 390-396: the search raises SearchExpressionValueTypeError
\* or SearchExpressionNotFoundError.
SearchFailed == [raises |-> TRUE, value |-> None]

\* _sample_search(field="volume", value_type=float): the float of the first
\* value found; it fails when no expression yields a value or float() fails.
_sample_search(expressions, sample) ==
    LET i == FirstMatch(expressions, sample)
        value == float(jmespath_search(expressions[i], sample))
    IN IF i = 0 \/ value = None
       THEN SearchFailed
       ELSE [raises |-> FALSE, value |-> value]

\* A mapping rule without the optional settings, and the volume settings.
NoVolume == [kind |-> "absent", literal |-> 0, sources |-> <<>>, source |-> <<>>]
Literal(v) == [kind |-> "literal", literal |-> v, sources |-> <<>>, source |-> <<>>]
VolumeDict(sources, source) ==
    [kind |-> "dict", literal |-> 0, sources |-> sources, source |-> source]

Mapping0 ==
    [meter |-> "meter", service |-> Absent, type |-> "Volume", transformer |-> "max",
     unit |-> "unit", res_id_template |-> Absent, filters |-> <<>>, volume |-> NoVolume]

\* Line 229: "volume" in mapping and mapping["volume"], the truth value of
\* the setting: a literal 0 and an empty dict are false.
VolumeConfigured(mapping) ==
    \/ mapping.volume.kind = "literal" /\ mapping.volume.literal # 0
    \/ mapping.volume.kind = "dict"
         /\ (mapping.volume.sources # <<>> \/ mapping.volume.source # <<>>)

\* Line 237-251: the expressions the rendered generators search with. The
\* generator of "sources" reads volume_sources when it is rendered, after
\* the loop has bound it to "source" if that key is set too.
VolumeSources(mapping) ==
    IF mapping.volume.source # <<>> THEN mapping.volume.source ELSE mapping.volume.sources

\* Line 228-260: the sample with its volume overridden, or the exception of
\* the search.
VolumeOverride(mapping, sample) ==
    IF ~VolumeConfigured(mapping)
    THEN [raises |-> FALSE, sample |-> sample]
    ELSE IF mapping.volume.kind = "literal"
         THEN [raises |-> FALSE, sample |-> [sample EXCEPT !.volume = mapping.volume.literal]]
         ELSE LET found == _sample_search(VolumeSources(mapping), sample)
              IN [raises |-> found.raises,
                  sample |-> [sample EXCEPT !.volume = found.value]]

\* Line 216: mapping.get('res_id_template', '%s') % res_id.
Template(mapping, res_id) ==
    IF mapping.res_id_template = Absent THEN res_id ELSE <<mapping.res_id_template>> \o res_id

\* hashlib.md5(res_id).hexdigest(): a digest that tells the inputs apart.
md5(res_id) == <<"md5">> \o res_id

\* Variant: the raw id is hashed, before the template.
PersistedId_HashRaw(mapping, raw_id) ==
    IF mapping.type = "Object Storage Container"
    THEN md5(raw_id) ELSE Template(mapping, raw_id)

\* Line 216 and 295-296: the id a resource is persisted under.
PersistedId(mapping, raw_id) ==
    IF mapping.type = "Object Storage Container"
    THEN md5(Template(mapping, raw_id)) ELSE Template(mapping, raw_id)

\* Line 201-202: the container name, the part of the raw id after the first
\* '/'; index() raises ValueError when there is none.
HasSlash(raw_id) == \E i \in DOMAIN raw_id : raw_id[i] = "/"
ContainerName(raw_id) ==
    SubSeq(raw_id, Min({i \in DOMAIN raw_id : raw_id[i] = "/"}) + 1, Len(raw_id))

\* openstack.get_volume_type_name: the name of a volume type the external
\* service knows, Absent for the None of one it does not know.
get_volume_type_name(volume_type) ==
    CASE volume_type = "nvme" -> "b1.nvme"
      [] OTHER -> Absent

\* Arithmetic line 79-85: what BlockStorageMaxTransformer looks up for the
\* last sample of the list; the other transformers of the model look up
\* nothing.
Lookup(transformer, data) ==
    IF transformer = "blockstoragemax" /\ data # <<>>
       /\ data[Len(data)].volume_type # Absent
    THEN get_volume_type_name(data[Len(data)].volume_type)
    ELSE Absent

\* _get_os_distro: the distro of the image that the sample's image_ref_url
\* names (image_ref in the model, a key that is always there), 'unknown' when
\* it names none.
_get_os_distro(entry) ==
    CASE entry.image_ref = "img" -> "linux"
      [] entry.image_ref = "img2" -> "windows"
      [] OTHER -> "unknown"

\* resource_get_by_ids: the resource is stored.
resource_get_by_ids(db_resources, res_id) == \E r \in db_resources : r.id = res_id

\* Line 190-202: the type-specific enrichment is computed.
Enriches(db_resources, res_id, mapping) ==
    /\ ~resource_get_by_ids(db_resources, res_id)
    /\ mapping.type \in {"Virtual Machine", "Object Storage Container"}

\* A variant that derives the name and the distro whether the resource is
\* stored or not.
_get_resource_info_Always(db_resources, res_id, mapping, entry) ==
    [id |-> res_id, type |-> mapping.type,
     name |-> IF mapping.type = "Object Storage Container"
              THEN ContainerName(entry.resource_id) ELSE <<>>,
     os_distro |-> IF mapping.type = "Virtual Machine"
                   THEN _get_os_distro(entry) ELSE Absent]

\* _get_resource_info for the types of the model: the name of a container
\* and the distro of a virtual machine are derived only while the resource
\* is not stored; <<>> and Absent stand for a key the info does not carry.
_get_resource_info(db_resources, res_id, mapping, entry) ==
    [id |-> res_id, type |-> mapping.type,
     name |-> IF ~resource_get_by_ids(db_resources, res_id)
                  /\ mapping.type = "Object Storage Container"
              THEN ContainerName(entry.resource_id) ELSE <<>>,
     os_distro |-> IF ~resource_get_by_ids(db_resources, res_id)
                       /\ mapping.type = "Virtual Machine"
                   THEN _get_os_distro(entry) ELSE Absent]

\* dict.update(res_info) of the record of a resource: a key the new info
\* does not carry keeps its value.
Update(records, res_info) ==
    LET old == {r \in records : r.id = res_info.id}
        kept == CHOOSE r \in old : TRUE
        merged == IF old = {}
                  THEN res_info
                  ELSE [res_info EXCEPT
                          !.name = IF res_info.name # <<>> THEN @ ELSE kept.name,
                          !.os_distro = IF res_info.os_distro # Absent
                                        THEN @ ELSE kept.os_distro]
    IN (records \ old) \cup {merged}

\* A set as a sequence, in the order a dict is iterated.
RECURSIVE Items(_)
Items(S) ==
    IF S = {} THEN <<>>
    ELSE LET x == CHOOSE x \in S : TRUE IN <<x>> \o Items(S \ {x})

(* ---- one project, window by window: BaseCollector.collect_usage ---- *)

MaxWindows == 2

\* The fields of base:
\*   pc                 position in collect_usage
\*   trust_sources      CONF.collector.trust_sources
\*   rules              self.meter_mappings, each rule with what get_meter
\*                      returns for its meter
\*   m                  index of the rule being applied
\*   mapping, usage     the rule being applied and the samples of its meter
\*   win, start, end    the window, counted from 1, and its bounds in seconds
\*   usage_by_resource  the items of the grouped samples
\*   idx                index of the resource being transformed
\*   service            the local variable service of _transform_usages
\*   resources, usage_entries   what the window has built so far
\*   inputs             (resource id, samples, service) of every transformer
\*                      call of the window (history)
\*   ret                return value of collect_usage
\*   db_resources, db_usage, db_last_collected   the store of the project
\*   sink_raises        the usage call of the metrics sink raises
\*   notified           the entries the metrics sink was given (history)
\*   enriched           the resource ids whose type-specific enrichment was
\*                      computed, one per computation (history)

\* db_api.usages_add: resources, entries and the watermark in one transaction.
usages_add_resources(db_resources, resources) ==
    LET RECURSIVE Fold(_, _)
        Fold(db, rs) == IF rs = <<>> THEN db ELSE Fold(Update(db, Head(rs)), Tail(rs))
    IN Fold(db_resources, Items(resources))
usages_add_usage(db_usage, usage_entries) == db_usage \o usage_entries

\* Line 64-72: a window starts with nothing built, at the first rule.
StartWindow(b) ==
    [b EXCEPT !.pc = "get_meter", !.m = 1, !.mapping = b.rules[1][1],
              !.usage = b.rules[1][2], !.usage_by_resource = <<>>, !.idx = 0,
              !.service = Absent, !.resources = {}, !.usage_entries = <<>>,
              !.inputs = {}, !.ret = "none"]

\* Line 72 and 83-86: after the last resource of a rule the next rule is
\* fetched, after the last rule the window is committed.
AfterMapping(b) ==
    IF b.m < Len(b.rules)
    THEN [b EXCEPT !.pc = "get_meter", !.m = @ + 1, !.mapping = b.rules[b.m + 1][1],
                   !.usage = b.rules[b.m + 1][2], !.usage_by_resource = <<>>, !.idx = 0]
    ELSE [b EXCEPT !.pc = "usages_add"]

\* Line 74-78 and 208-209: the samples of the meter are fetched, filtered by
\* source and grouped by resource.
FilterAndGroup ==
    /\ base.pc = "get_meter"
    /\ LET grouped == _filter_and_group(base.trust_sources, base.usage)
           fetched == [base EXCEPT
                         !.usage_by_resource = grouped,
                         !.idx = 1,
                         !.service = IF base.mapping.service # Absent
                                     THEN base.mapping.service ELSE base.mapping.meter]
       IN base' = IF grouped = <<>>
                  THEN AfterMapping(fetched)
                  ELSE [fetched EXCEPT !.pc = "transform"]
    /\ UNCHANGED <<cycle_vars, xform, sink>>

\* Line 90-98: an exception ends collect_usage with False; nothing of the
\* window is stored.
OnException(b) == [b EXCEPT !.pc = "done", !.ret = "False"]

\* Line 215: the next resource of the rule, or what follows the rule.
NextResource(b) ==
    IF b.idx < Len(b.usage_by_resource)
    THEN [b EXCEPT !.idx = @ + 1]
    ELSE AfterMapping(b)

\* Line 215-335, one turn of the loop: one resource of the rule is filtered,
\* its volumes are overridden, it is transformed, its entries and record are
\* built and each entry is pushed to the metrics sink.
TransformResource(b) ==
    LET mapping == b.mapping
        raw_id == b.usage_by_resource[b.idx][1]
        filtered == SelectSeq(b.usage_by_resource[b.idx][2],
                              LAMBDA u : _sample_filter(mapping.filters, u))
        rendered == [i \in DOMAIN filtered |-> VolumeOverride(mapping, filtered[i])]
        entries == [i \in DOMAIN rendered |-> rendered[i].sample]
        transformed == transform_usage(mapping.transformer, b.service, entries,
                                       b.start, b.end,
                                       Lookup(mapping.transformer, entries), Absent)
        res_id == PersistedId(mapping, raw_id)
        res_info == _get_resource_info(b.db_resources, res_id, mapping,
                                       entries[Len(entries)])
        items == Items(transformed.items)
        built == [i \in DOMAIN items |->
                    [service |-> items[i][1], volume |-> items[i][2],
                     unit |-> mapping.unit, resource_id |-> res_id,
                     start |-> b.start, end |-> b.end, tenant_id |-> "p1"]]
        called == [b EXCEPT !.inputs = @ \cup {<<raw_id, entries, b.service>>}]
        recorded == [called EXCEPT
                       !.resources = Update(@, res_info),
                       !.enriched = IF Enriches(b.db_resources, res_id, mapping)
                                    THEN Append(@, res_id) ELSE @]
    IN IF \E i \in DOMAIN rendered : rendered[i].raises
       THEN OnException(b)
       ELSE IF entries = <<>>
       THEN NextResource(b)
       ELSE IF transformed.kind = "raise"
       THEN OnException(called)
       ELSE IF transformed.items = {}
       THEN NextResource(called)
       ELSE IF /\ mapping.type = "Object Storage Container"
               /\ ~resource_get_by_ids(b.db_resources, res_id)
               /\ ~HasSlash(raw_id)
       THEN OnException(called)
       ELSE IF b.sink_raises
       THEN OnException([recorded EXCEPT !.service = items[1][1],
                                         !.usage_entries = Append(@, built[1])])
       ELSE NextResource([recorded EXCEPT !.service = items[Len(items)][1],
                                          !.usage_entries = @ \o built,
                                          !.notified = @ \o built])

TransformUsages ==
    /\ base.pc = "transform"
    /\ base' = TransformResource(base)
    /\ UNCHANGED <<cycle_vars, xform, sink>>

\* Line 85-86 and 100: the window is committed and collect_usage returns True.
UsagesAddWindow ==
    /\ base.pc = "usages_add"
    /\ base' = [base EXCEPT
                  !.db_resources = usages_add_resources(@, base.resources),
                  !.db_usage = usages_add_usage(@, base.usage_entries),
                  !.db_last_collected = base.end,
                  !.ret = "True",
                  !.pc = "done"]
    /\ UNCHANGED <<cycle_vars, xform, sink>>

\* Line 85-98: usages_add raises and the transaction stores nothing.
UsagesAddRaise ==
    /\ base.pc = "usages_add"
    /\ base' = OnException(base)
    /\ UNCHANGED <<cycle_vars, xform, sink>>

\* The next call: the window after the watermark, the same window again
\* after a failure; the meters return samples of the same resources.
NextWindow ==
    /\ base.pc = "done"
    /\ base.win < MaxWindows
    /\ base' = StartWindow([base EXCEPT
                  !.win = @ + 1,
                  !.start = base.db_last_collected,
                  !.end = base.db_last_collected + SecondsPerHour])
    /\ UNCHANGED <<cycle_vars, xform, sink>>

\* A call of collect_usage for a first window, nothing stored yet, with the
\* rules it applies and a metrics sink that raises or not.
Rules0(trust_sources, rules, sink_raises) ==
    [pc |-> "get_meter", trust_sources |-> trust_sources, rules |-> rules, m |-> 1,
     mapping |-> rules[1][1], usage |-> rules[1][2],
     win |-> 1, start |-> 0, end |-> SecondsPerHour,
     usage_by_resource |-> <<>>, idx |-> 0, service |-> Absent, resources |-> {},
     usage_entries |-> <<>>, inputs |-> {}, ret |-> "none",
     db_resources |-> {}, db_usage |-> <<>>, db_last_collected |-> 0,
     sink_raises |-> sink_raises, notified |-> <<>>, enriched |-> <<>>]

\* The same with one rule and a metrics sink that does not raise.
Window0(trust_sources, mapping, usage) ==
    Rules0(trust_sources, <<<<mapping, usage>>>>, FALSE)

\* Samples of two resources from trusted and untrusted sources, under the
\* trust patterns that may be configured.
TrustCases ==
    {Window0(t, Mapping0, u) :
        t \in {<<>>, <<"openstack">>, <<".*:user">>, <<".*:user", "rogue">>},
        u \in SeqsUpTo({[Sample0 EXCEPT !.resource_id = r, !.source = src, !.volume = v] :
                           r \in {<<"r1">>, <<"r2">>},
                           src \in {"openstack", "openstack:user", "rogue"},
                           v \in {1, 3}}, MaxSamples)}

\* Samples with and without the metadata a volume source reads, under the
\* volume settings a rule may carry.
VolumeCases ==
    {Window0(<<>>, [Mapping0 EXCEPT !.volume = vc], u) :
        vc \in {NoVolume, Literal(0), Literal(2), VolumeDict(<<>>, <<>>),
                VolumeDict(<<"metadata.node_count", "metadata.alt_count">>, <<>>),
                VolumeDict(<<"metadata.alt_count", "metadata.node_count">>, <<>>),
                VolumeDict(<<>>, <<"metadata.node_count">>)},
        u \in SeqsUpTo({[Sample0 EXCEPT !.volume = v, !.node_count = n, !.alt_count = a] :
                           v \in {1, 3}, n \in {Absent, "2", "two"}, a \in {Absent, "5"}},
                       MaxSamples)}

\* Samples of two resources that pass or fail the filters a rule may carry.
FilterCases ==
    {Window0(<<>>, [Mapping0 EXCEPT !.filters = f], u) :
        f \in {<<>>, <<"metadata.status != 'CREATE_FAILED'">>,
               <<"metadata.status != 'CREATE_FAILED'", "volume">>},
        u \in SeqsUpTo({[Sample0 EXCEPT !.resource_id = r, !.status = st, !.volume = v] :
                           r \in {<<"r1">>, <<"r2">>},
                           st \in {Absent, "CREATE_COMPLETE", "CREATE_FAILED"},
                           v \in {0, 1}}, MaxSamples)}

\* Samples of containers and of other resources under rules of both kinds
\* of type, with and without a resource id template.
ResourceIdCases ==
    {Window0(<<>>, [Mapping0 EXCEPT !.type = ty, !.res_id_template = tpl,
                                    !.transformer = tr], u) :
        ty \in {"Object Storage Container", "Volume"},
        tpl \in {Absent, "swift-"},
        tr \in {"max", "uptime"},
        u \in SeqsUpTo({[Sample0 EXCEPT !.resource_id = r, !.volume = v, !.status = "active",
                                        !.instance_type = f] :
                           r \in {<<"p1", "/", "c1">>, <<"p1", "/", "c2">>, <<"r1">>},
                           v \in {1, 3}, f \in {Absent, "c1"}}, MaxSamples)}

InitBase ==
    /\ now = StartTime
    /\ collect_end_time = NoTime
    /\ created_on = [p \in Projects |-> NoTime]
    /\ project_locks = [p \in Projects |-> NoOwner]
    /\ last_collected = [p \in Projects |-> NoTime]
    /\ seed = [p \in Projects |-> NoTime]
    /\ usage_store = {}
    /\ committed = [p \in Projects |-> <<>>]
    /\ svc = [c \in Collectors |-> NoCycle]
    /\ xform = NoCall
    /\ sink = NoSink
    /\ base \in TrustCases \cup VolumeCases \cup FilterCases \cup ResourceIdCases

NextBase ==
    \/ FilterAndGroup
    \/ TransformUsages
    \/ UsagesAddWindow
    \/ NextWindow

SpecBase == InitBase /\ [][NextBase]_vars

(* ---- C12: samples from untrusted sources contribute to nothing ---- *)

\* C12: once the samples of a window are grouped, and patterns are
\* configured, no sample whose source matches none of them is in a group or
\* in the input of a transformer call, and every usage entry and resource
\* record, built or stored, carries the id of a resource that has a sample
\* from a matching source; when no pattern is configured every sample of the
\* meter is in the group of its resource.
C12_UntrustedContributesNothing ==
    LET t == base.trust_sources
        NoMatch(u) == \A i \in DOMAIN t : ~re_match(t[i], u.source)
        FromTrusted(id) ==
            \E j \in DOMAIN base.usage :
                /\ ~NoMatch(base.usage[j])
                /\ PersistedId(base.mapping, base.usage[j].resource_id) = id
        grouped == base.usage_by_resource
    IN base.pc # "get_meter" =>
         /\ Len(t) > 0 =>
              /\ \A i \in DOMAIN grouped : \A j \in DOMAIN grouped[i][2] :
                     ~NoMatch(grouped[i][2][j])
              /\ \A call \in base.inputs : \A j \in DOMAIN call[2] : ~NoMatch(call[2][j])
              /\ \A i \in DOMAIN base.usage_entries :
                     FromTrusted(base.usage_entries[i].resource_id)
              /\ \A i \in DOMAIN base.db_usage : FromTrusted(base.db_usage[i].resource_id)
              /\ \A r \in base.resources \cup base.db_resources : FromTrusted(r.id)
         /\ Len(t) = 0 =>
              /\ \A id \in {base.usage[j].resource_id : j \in DOMAIN base.usage} :
                    \E i \in DOMAIN grouped :
                       /\ grouped[i][1] = id
                       /\ grouped[i][2] = SelectSeq(base.usage, LAMBDA u : u.resource_id = id)

\* A window is committed with entries although one resource of the meter
\* has only samples from a source no configured pattern matches.
C12_Witness ==
    /\ Len(base.trust_sources) > 0
    /\ base.pc = "done"
    /\ base.ret = "True"
    /\ base.db_usage # <<>>
    /\ \E j \in DOMAIN base.usage :
          \A k \in DOMAIN base.usage :
             base.usage[k].resource_id = base.usage[j].resource_id =>
                \A i \in DOMAIN base.trust_sources :
                   ~re_match(base.trust_sources[i], base.usage[k].source)

(* ---- C13: a failed volume-source search fails the window ---- *)

\* C13: when the resource being transformed has a retained sample in which
\* no configured volume expression yields a value, or in which the first
\* value found is not a number, the step ends collect_usage with False,
\* leaves the stored resources and entries as they are and leaves the
\* watermark at the start of the window.
C13_SearchErrorFailsWindow ==
    [][LET mapping == base.mapping
           expressions == VolumeSources(mapping)
           retained == SelectSeq(base.usage_by_resource[base.idx][2],
                                 LAMBDA u : _sample_filter(mapping.filters, u))
           Values(u) == {i \in DOMAIN expressions :
                            jmespath_search(expressions[i], u) # Absent}
           DataError(u) ==
               \/ Values(u) = {}
               \/ float(jmespath_search(expressions[Min(Values(u))], u)) = None
       IN (/\ base.pc = "transform"
           /\ mapping.volume.kind = "dict"
           /\ expressions # <<>>
           /\ \E i \in DOMAIN retained : DataError(retained[i]))
          => /\ base'.pc = "done"
             /\ base'.ret = "False"
             /\ base'.db_resources = base.db_resources
             /\ base'.db_usage = base.db_usage
             /\ base'.db_last_collected = base.db_last_collected
             /\ base'.db_last_collected <= base.start]_vars

\* The window failed twice on a sample whose node count is not a number:
\* nothing is stored and the watermark is where it was.
C13_Witness ==
    /\ base.mapping.volume.kind = "dict"
    /\ VolumeSources(base.mapping) = <<"metadata.node_count">>
    /\ \E j \in DOMAIN base.usage : base.usage[j].node_count = "two"
    /\ base.win = MaxWindows
    /\ base.pc = "done"
    /\ base.ret = "False"
    /\ base.db_usage = <<>>
    /\ base.db_last_collected = 0

(* ---- C14: the volume override ---- *)

\* C14: the samples of every transformer call are the retained samples of
\* the resource with their volume set to the literal when the rule's volume
\* is a literal, to the number of the first expression in list order that
\* yields a value when it names expressions, and left as they were when it
\* is a dictionary naming no expression (or is not set).
C14_VolumeOverride ==
    \A call \in base.inputs :
       LET mapping == base.mapping
           expressions == VolumeSources(mapping)
           group == CHOOSE g \in {base.usage_by_resource[i] :
                                     i \in DOMAIN base.usage_by_resource} : g[1] = call[1]
           retained == SelectSeq(group[2], LAMBDA u : _sample_filter(mapping.filters, u))
           First(u) == Min({i \in DOMAIN expressions :
                               jmespath_search(expressions[i], u) # Absent})
           Expected(u) ==
               IF mapping.volume.kind = "literal"
               THEN mapping.volume.literal
               ELSE IF mapping.volume.kind = "dict" /\ expressions # <<>>
                    THEN float(jmespath_search(expressions[First(u)], u))
                    ELSE u.volume
       IN /\ Len(call[2]) = Len(retained)
          /\ \A j \in DOMAIN retained :
                call[2][j] = [retained[j] EXCEPT !.volume = Expected(retained[j])]

(* ---- C15: sample filters ---- *)

\* C15: the samples of a transformer call are the samples of the resource
\* for which every filter of the rule is truthy; the step of a resource with
\* no such sample calls no transformer, builds no entry and no record and
\* goes on to the next resource or to the commit without failing; the commit
\* step returns True and advances the watermark to the window's end; and
\* after every step no entry or record, built or stored, carries the id of
\* such a resource.
C15_FilteredSamples ==
    [][LET filters == base.mapping.filters
           Passes(u) == \A i \in DOMAIN filters : filter_result(filters[i], u)
           Passing(samples) == SelectSeq(samples, Passes)
           AllFilteredIds(b) ==
               {PersistedId(b.mapping, b.usage_by_resource[i][1]) :
                   i \in {k \in DOMAIN b.usage_by_resource :
                             Passing(b.usage_by_resource[k][2]) = <<>>}}
           Clean(b) ==
               /\ \A i \in DOMAIN b.usage_entries :
                     b.usage_entries[i].resource_id \notin AllFilteredIds(b)
               /\ \A i \in DOMAIN b.db_usage :
                     b.db_usage[i].resource_id \notin AllFilteredIds(b)
               /\ \A r \in b.resources \cup b.db_resources : r.id \notin AllFilteredIds(b)
       IN /\ Clean(base')
          /\ base.pc = "transform" =>
                LET group == base.usage_by_resource[base.idx]
                IN /\ \A call \in base'.inputs \ base.inputs :
                         /\ call[1] = group[1]
                         /\ Len(call[2]) = Len(Passing(group[2]))
                         /\ \A j \in DOMAIN call[2] :
                               [call[2][j] EXCEPT !.volume = Passing(group[2])[j].volume]
                                  = Passing(group[2])[j]
                   /\ Passing(group[2]) = <<>> =>
                         /\ base'.inputs = base.inputs
                         /\ base'.usage_entries = base.usage_entries
                         /\ base'.resources = base.resources
                         /\ base'.ret = base.ret
                         /\ base'.pc = IF base.idx < Len(base.usage_by_resource)
                                       THEN "transform" ELSE "usages_add"
          /\ base.pc = "usages_add" =>
                /\ base'.ret = "True"
                /\ base'.db_last_collected = base.end]_vars

\* A window is committed with the entries of one resource while every sample
\* of another resource failed a filter.
C15_Witness ==
    /\ base.mapping.filters # <<>>
    /\ base.pc = "done"
    /\ base.ret = "True"
    /\ base.db_last_collected = base.end
    /\ base.db_usage # <<>>
    /\ Len(base.usage_by_resource) = 2
    /\ \E i \in DOMAIN base.usage_by_resource :
          /\ \A j \in DOMAIN base.usage_by_resource[i][2] :
                base.usage_by_resource[i][2][j].status = "CREATE_FAILED"
          /\ \A k \in DOMAIN base.db_usage :
                base.db_usage[k].resource_id # base.usage_by_resource[i][1]

(* ---- C16: the persisted resource id ---- *)

\* C16: the entries and the resource record that the step of a raw resource
\* id r builds carry the id md5(T(r)) under a rule of type 'Object Storage
\* Container' and T(r) under any other type, T being the rule's template
\* (the identity when none is set); this holds in every window, and after
\* every step each entry, built or stored, has a resource record of the same
\* id beside it and each record an entry.
C16_PersistedResourceId ==
    [][LET T(r) == Template(base.mapping, r)
           Id(r) == IF base.mapping.type = "Object Storage Container"
                    THEN md5(T(r)) ELSE T(r)
           Ids(entries) == {entries[i].resource_id : i \in DOMAIN entries}
           Agree(b) ==
               /\ Ids(b.usage_entries) = {r.id : r \in b.resources}
               /\ Ids(b.db_usage) = {r.id : r \in b.db_resources}
       IN /\ Agree(base')
          /\ base.pc = "transform" =>
                LET r == base.usage_by_resource[base.idx][1]
                    built == SubSeq(base'.usage_entries, Len(base.usage_entries) + 1,
                                    Len(base'.usage_entries))
                IN /\ Ids(built) \subseteq {Id(r)}
                   /\ \A rec \in base'.resources \ base.resources : rec.id = Id(r)
          /\ base.pc = "usages_add" =>
                /\ Ids(base'.db_usage) \subseteq
                      {Id(base.usage[j].resource_id) : j \in DOMAIN base.usage}
                /\ \A j \in DOMAIN base.usage :
                      LET u == base.usage[j]
                      IN (\E call \in base.inputs : call[1] = u.resource_id)
                            /\ Id(u.resource_id) \in Ids(base.usage_entries)
                         => \A w \in {base'.db_usage[i].start : i \in DOMAIN base'.db_usage} :
                               \E i \in DOMAIN base'.db_usage :
                                  /\ base'.db_usage[i].start = w
                                  /\ base'.db_usage[i].resource_id = Id(u.resource_id)]_vars

\* Two windows of a container rule with a template are committed: the
\* entries of both windows and the record carry the hash of the templated id.
C16_Witness ==
    /\ base.mapping.type = "Object Storage Container"
    /\ base.mapping.res_id_template = "swift-"
    /\ base.win = MaxWindows
    /\ base.pc = "done"
    /\ base.ret = "True"
    /\ \E i, k \in DOMAIN base.db_usage :
          /\ base.db_usage[i].start # base.db_usage[k].start
          /\ base.db_usage[i].resource_id = <<"md5", "swift-", "p1", "/", "c1">>
          /\ base.db_usage[k].resource_id = <<"md5", "swift-", "p1", "/", "c1">>
    /\ \E rec \in base.db_resources :
          rec.id = <<"md5", "swift-", "p1", "/", "c1">> /\ rec.name = <<"c1">>

(* ---- the last_run gauges: PrometheusCollectorMetrics and _collect_usage ---- *)

MaxClock == 8
MaxStep == 2

\* The fields of sink:
\*   pc                  "new" before the sink is created, "idle" between runs
\*   utcnow              the clock, datetime.utcnow() as a timestamp
\*   max_windows         CONF.collector.max_windows_per_cycle
\*   last_run_start, last_run_end, last_run_duration_seconds   the gauges
\*   returned            how the last run of collect_usage ended
Sink0(max_windows) ==
    [pc |-> "new", utcnow |-> 0, max_windows |-> max_windows,
     last_run_start |-> 0, last_run_end |-> 0, last_run_duration_seconds |-> 0,
     returned |-> "none"]

\* The time a stretch of code takes: the clock has moved when it is read again.
Steps == {d \in 1..MaxStep : sink.utcnow + d <= MaxClock}

\* PrometheusCollectorMetrics.__init__: the gauges are seeded from two reads
\* of the clock and their difference.
SinkInit ==
    /\ sink.pc = "new"
    /\ \E d \in Steps :
          LET run_start == sink.utcnow
              run_end == sink.utcnow + d
          IN sink' = [sink EXCEPT !.pc = "idle", !.utcnow = run_end,
                                  !.last_run_start = run_start,
                                  !.last_run_end = run_end,
                                  !.last_run_duration_seconds = run_end - run_start]
    /\ UNCHANGED <<cycle_vars, base, xform>>

\* The periodic interval passes between two runs.
Wait ==
    /\ sink.pc = "idle"
    /\ sink.utcnow < MaxClock
    /\ sink' = [sink EXCEPT !.utcnow = @ + 1]
    /\ UNCHANGED <<cycle_vars, base, xform>>

\* _collect_usage, line 151-154: with max_windows_per_cycle <= 0 the run
\* returns before it touches a gauge.
CollectUsageEarlyExit ==
    /\ sink.pc = "idle"
    /\ sink.max_windows <= 0
    /\ sink' = [sink EXCEPT !.returned = "early"]
    /\ UNCHANGED <<cycle_vars, base, xform>>

\* _collect_usage, line 146-246: a run that reaches its end sets the three
\* gauges from its start and end time.
CollectUsageCompleted ==
    /\ sink.pc = "idle"
    /\ sink.max_windows > 0
    /\ \E d \in Steps :
          LET collection_start == sink.utcnow
              collection_end == sink.utcnow + d
          IN sink' = [sink EXCEPT !.utcnow = collection_end,
                                  !.last_run_start = collection_start,
                                  !.last_run_end = collection_end,
                                  !.last_run_duration_seconds =
                                      collection_end - collection_start,
                                  !.returned = "completed"]
    /\ UNCHANGED <<cycle_vars, base, xform>>

\* collect_usage, line 133-142, around _collect_usage, line 146-221: a run in
\* which get_projects, the store or a project raises after last_run_start
\* was set at line 157-158 is logged and returns True; last_run_end and the
\* duration are only set at line 233-237.
CollectUsageFailed ==
    /\ sink.pc = "idle"
    /\ sink.max_windows > 0
    /\ \E d \in Steps :
          LET collection_start == sink.utcnow
          IN sink' = [sink EXCEPT !.utcnow = sink.utcnow + d,
                                  !.last_run_start = collection_start,
                                  !.returned = "failed"]
    /\ UNCHANGED <<cycle_vars, base, xform>>

InitMetrics ==
    /\ now = StartTime
    /\ collect_end_time = NoTime
    /\ created_on = [p \in Projects |-> NoTime]
    /\ project_locks = [p \in Projects |-> NoOwner]
    /\ last_collected = [p \in Projects |-> NoTime]
    /\ seed = [p \in Projects |-> NoTime]
    /\ usage_store = {}
    /\ committed = [p \in Projects |-> <<>>]
    /\ svc = [c \in Collectors |-> NoCycle]
    /\ xform = NoCall
    /\ base = NoWindow
    /\ sink \in {Sink0(max_windows) : max_windows \in {0, max_windows_per_cycle}}

NextMetrics ==
    \/ SinkInit
    \/ Wait
    \/ CollectUsageEarlyExit
    \/ CollectUsageCompleted
    \/ CollectUsageFailed

SpecMetrics == InitMetrics /\ [][NextMetrics]_vars

(* ---- C20: the last_run gauges between runs ---- *)

\* C20: whenever the sink exists and no run is in progress, last_run_start
\* is before last_run_end and last_run_duration_seconds is their difference.
C20_LastRunGauges ==
    sink.pc = "idle" =>
       /\ sink.last_run_start < sink.last_run_end
       /\ sink.last_run_duration_seconds = sink.last_run_end - sink.last_run_start

(* ---- C25: the cooperative yield between projects ---- *)

\* C25: whenever a collector goes from one project of its processing order
\* to the next, the cooperative yield ran in between, however the first
\* project was left.
C25_YieldBetweenProjects ==
    [][\A c \in Collectors :
          (/\ svc[c].idx >= 1
           /\ svc'[c].idx = svc[c].idx + 1
           /\ svc'[c].pc = "get_project_locks")
             => svc'[c].yielded]_vars

(* ---- C29: one-shot mode stops only when every project is at the end time ---- *)

\* C29: the step that kills the process is taken only when every project
\* of the cycle's processing order has its watermark at or beyond the hard
\* end time.
C29_OneShotStopsWhenAllUpToDate ==
    [][\A c \in Collectors :
          (svc[c].pc = "report" /\ svc'[c].pc = "killed") =>
              \A p \in Range(svc[c].valid_projects) :
                  /\ last_collected[p] # NoTime
                  /\ last_collected[p] >= collect_end_time]_vars

(* ---- C30: no lock is left behind ---- *)

\* C30: a collector that is not inside the locked section of a project owns
\* no lock: not after it moved on from a project, however it left it, not
\* after an exception ended its cycle, and not between two cycles.
C30_NoLockLeftBehind ==
    \A c \in Collectors :
        ~InLockedSection(c) => \A p \in Projects : project_locks[p] # c

\* A collector whose first project raised inside the locked section stands
\* in the handler of the cycle and the project's lock is gone.
C30_Witness ==
    \E c \in Collectors :
        /\ svc[c].pc = "raised"
        /\ svc[c].idx = 1
        /\ svc[c].processed_count = 1
        /\ project_locks[svc[c].valid_projects[1]] = NoOwner

(* ---- C27: the state of a project is written under its lock ---- *)

\* C27: a step that changes a project's watermark, its seed, its committed
\* windows or its stored entries is a step of a collector that is inside the
\* locked section of that project and owns its lock before and after the
\* step; a collector that stays inside the locked section keeps the lock;
\* and while a collector is between its read of the watermark and its last
\* commit, no step of another collector changes that watermark.
C27_WritesUnderLock ==
    [][/\ \A p \in Projects :
             (\/ last_collected'[p] # last_collected[p]
              \/ seed'[p] # seed[p]
              \/ committed'[p] # committed[p]
              \/ {e \in usage_store' : e[1] = p} # {e \in usage_store : e[1] = p})
                => \E c \in Collectors :
                      /\ svc'[c] # svc[c]
                      /\ InLockedSection(c)
                      /\ project(c) = p
                      /\ project_locks[p] = c
                      /\ project_locks'[p] = c
       /\ \A c \in Collectors :
             /\ (InLockedSection(c) /\ svc'[c].pc \in LockedSection) =>
                    /\ project_locks[project(c)] = c
                    /\ project_locks'[project(c)] = c
             /\ (svc[c].pc \in {"get_meter", "usages_add", "release"} /\ svc'[c] = svc[c]) =>
                    last_collected'[project(c)] = last_collected[project(c)]]_vars

\* A collector has committed one window of a project and collects the next
\* while another collector reads the lock of the same project.
C27_Witness ==
    \E c1, c2 \in Collectors :
        /\ c1 # c2
        /\ Collecting(c1)
        /\ svc[c1].win = 2
        /\ svc[c1].windows[1] \in Range(committed[project(c1)])
        /\ svc[c2].pc = "get_project_locks"
        /\ project(c2) = project(c1)

(* ---- several rules, a raising sink, a failing store ---- *)

\* Volumes of two resources with and without a volume type the external
\* service knows, under one rule with or without a configured service.
ServiceCases ==
    {Rules0(<<>>, <<<<[Mapping0 EXCEPT !.transformer = tr, !.service = sv], u>>>>, raises) :
        tr \in {"max", "blockstoragemax"},
        sv \in {Absent, "b1.standard"},
        raises \in BOOLEAN,
        u \in SeqsUpTo({[Sample0 EXCEPT !.resource_id = r, !.volume = v, !.volume_type = vt] :
                           r \in {<<"r1">>, <<"r2">>}, v \in {1, 3},
                           vt \in {Absent, "nvme"}}, MaxSamples)}

\* Two rules of the types that are enriched, rating under the same service
\* or not, whose meters return samples of the same resource or not.
RuleCases ==
    LET samples == SeqsUpTo({[Sample0 EXCEPT !.resource_id = r, !.image_ref = img] :
                                r \in {<<"p1", "/", "c1">>, <<"r1">>},
                                img \in {"None", "img", "img2"}}, 1)
    IN {Rules0(<<>>, <<<<[Mapping0 EXCEPT !.type = ty1], u1>>,
                       <<[Mapping0 EXCEPT !.meter = "meter2", !.service = sv,
                                          !.type = ty2], u2>>>>, raises) :
           ty1 \in {"Virtual Machine", "Object Storage Container"},
           ty2 \in {"Virtual Machine", "Object Storage Container"},
           sv \in {Absent, "meter"},
           raises \in BOOLEAN,
           u1 \in samples, u2 \in samples}

InitRules ==
    /\ now = StartTime
    /\ collect_end_time = NoTime
    /\ created_on = [p \in Projects |-> NoTime]
    /\ project_locks = [p \in Projects |-> NoOwner]
    /\ last_collected = [p \in Projects |-> NoTime]
    /\ seed = [p \in Projects |-> NoTime]
    /\ usage_store = {}
    /\ committed = [p \in Projects |-> <<>>]
    /\ svc = [c \in Collectors |-> NoCycle]
    /\ xform = NoCall
    /\ sink = NoSink
    /\ base \in ServiceCases \cup RuleCases

NextRules ==
    \/ FilterAndGroup
    \/ TransformUsages
    \/ UsagesAddWindow
    \/ UsagesAddRaise
    \/ NextWindow

SpecRules == InitRules /\ [][NextRules]_vars

(* ---- C23: the service name a transformer is called with ---- *)

\* C23: whenever a resource is about to be transformed under a rule, the
\* service name the transformer is called with is the service the rule
\* configures, or the meter of the rule when it configures none, whatever
\* resources were transformed before it under the same rule.
C23_ServicePassedIsRuleService ==
    base.pc = "transform" =>
        base.service = IF base.mapping.service # Absent
                       THEN base.mapping.service ELSE base.mapping.meter

(* ---- C22: one committed entry per resource and service in a window ---- *)

\* C22: among the usage entries committed for the project no two entries
\* of one window carry the same resource id and the same service, whatever
\* rules the mapping document holds.
C22_OneEntryPerResourceAndService ==
    \A i, j \in DOMAIN base.db_usage :
        (/\ base.db_usage[i].resource_id = base.db_usage[j].resource_id
         /\ base.db_usage[i].service = base.db_usage[j].service
         /\ base.db_usage[i].start = base.db_usage[j].start
         /\ base.db_usage[i].end = base.db_usage[j].end) => i = j

(* ---- C28: what the metrics sink is told and what is committed ---- *)

\* C28: when a call of collect_usage has returned, every usage entry was
\* given to the metrics sink as many times as it is committed: nothing is
\* reported for a window that was not committed and nothing is reported
\* twice for a window that failed and was collected again.
C28_NotifiedIsCommitted ==
    LET Count(q, e) == Cardinality({i \in DOMAIN q : q[i] = e})
    IN base.pc = "done" =>
           \A e \in Range(base.notified) \cup Range(base.db_usage) :
               Count(base.notified, e) = Count(base.db_usage, e)

(* ---- C21: the metrics sink and the control flow ---- *)

\* What a step of collect_usage decides: where it goes on, what it returns
\* and what is stored.
Flow(b) ==
    <<b.pc, b.m, b.idx, b.ret, b.db_resources, b.db_usage, b.db_last_collected>>

\* C21: the metrics sink never affects control flow: each step that
\* transforms a resource goes on, returns and stores the same whether the
\* usage call of the sink raises or not.
C21_SinkNeverAffectsControlFlow ==
    [][base.pc = "transform" =>
          Flow(base') = Flow(TransformResource([base EXCEPT !.sink_raises = FALSE]))]_vars

(* ---- C24: the enrichment of a resource ---- *)

\* C24 as stated: the type-specific enrichment is computed at most once
\* for a resource id over all rules and windows.
C24_EnrichedAtMostOnce ==
    \A i, j \in DOMAIN base.enriched :
        base.enriched[i] = base.enriched[j] => i = j

\* C24: once a resource is recorded in the store, no step computes the
\* enrichment for it, what a window builds for it carries neither a name
\* nor a distro, and its recorded name and distro never change.
C24_RecordedEnrichmentIsFixed ==
    [][\A r \in base.db_resources :
          /\ Len(base'.enriched) > Len(base.enriched)
                => base'.enriched[Len(base'.enriched)] # r.id
          /\ base'.resources # base.resources
                => \A x \in base'.resources :
                      x.id = r.id => x.name = <<>> /\ x.os_distro = Absent
          /\ \E kept \in base'.db_resources :
                /\ kept.id = r.id
                /\ kept.name = r.name
                /\ kept.os_distro = r.os_distro]_vars

\* Two windows are committed and a rule for virtual machines has seen, in
\* the second, a sample that names another distro than the recorded one.
C24_Witness ==
    /\ base.win = 2
    /\ base.pc = "done"
    /\ base.db_last_collected = 2 * SecondsPerHour
    /\ \E r \in base.db_resources, k \in DOMAIN base.rules :
          /\ base.rules[k][1].type = "Virtual Machine"
          /\ \E i \in DOMAIN base.rules[k][2] :
                /\ PersistedId(base.rules[k][1], base.rules[k][2][i].resource_id) = r.id
                /\ r.os_distro # Absent
                /\ _get_os_distro(base.rules[k][2][i]) # r.os_distro

(* ---- the cycles under fair scheduling, with failures that end ---- *)

\* A step of the cycle of collector c that is not an exception: the timer
\* fires, or the running cycle goes on.
CycleStep(c) ==
    \/ StartCycle(c)
    \/ GetProjectLocks(c)
    \/ ProjectLock(c)
    \/ ProjectAdd(c)
    \/ GetMeter(c)
    \/ UsagesAdd(c)
    \/ Release(c)
    \/ Report(c)
    \/ Handler(c)

\* A step in which the driver, the store or the identity service raises.
Failure ==
    \E c \in Collectors :
        \/ StartCycleRaise(c)
        \/ GetProjectLocksRaise(c)
        \/ ProjectLockRaise(c)
        \/ ProjectAddRaise(c)
        \/ WindowRaise(c)

\* The periodic timer of every collector keeps firing and a cycle that runs
\* goes on; from some point on nothing raises.
\* The stored projects are as many windows behind as a cycle collects.
InitRetry ==
    /\ now = StartTime
    /\ collect_end_time = NoTime
    /\ created_on \in [Projects -> {NoTime, StartTime}]
    /\ \A p \in StoredAtStart : created_on[p] = NoTime
    /\ project_locks = [p \in Projects |-> NoOwner]
    /\ last_collected = [p \in Projects |->
                           IF p \in StoredAtStart
                           THEN StartTime - max_windows_per_cycle * collect_window
                           ELSE NoTime]
    /\ seed = last_collected
    /\ usage_store = {}
    /\ committed = [p \in Projects |-> <<>>]
    /\ svc = [c \in Collectors |-> NoCycle]
    /\ base = NoWindow
    /\ xform = NoCall
    /\ sink = NoSink

NextRetry ==
    \/ \E c \in Collectors : CycleStep(c)
    \/ Failure

SpecRetry ==
    /\ InitRetry
    /\ [][NextRetry]_vars
    /\ \A c \in Collectors : WF_vars(CycleStep(c))
    /\ <>[][~Failure]_vars

(* ---- C26: a failed window is retried in full ---- *)

\* Window w of project p has failed in the cycle of collector c.
Failed(c, p, w) ==
    /\ svc[c].pc = "release"
    /\ svc[c].collect_ret = "False"
    /\ project(c) = p
    /\ window(c) = w

\* The windows of the model.
Windows == {<<s, s + collect_window>> : s \in 0..MaxTime}

\* Collector c starts an attempt of a window in this step.
StartsAttempt(c) ==
    /\ svc'[c].pc = "get_meter"
    /\ \/ svc[c].pc = "project_add"
       \/ svc[c].pc \in {"get_meter", "usages_add"} /\ svc'[c].win # svc[c].win

====
